---- MODULE Spec2Model ----
(***************************************************************************)
(* dl-news-bot: the scheduled news job of src/main.rs.                     *)
(*                                                                         *)
(* setup() registers one repeated job with tokio_cron_scheduler and starts *)
(* the scheduler.  Every firing of the job spawns one run of the job body  *)
(* ("tick") as a task of its own.  A tick awaits three remote operations   *)
(* in turn: the HTTP GET of the feed, the query of the channel's most      *)
(* recent message, and the send of the card.  Everything a tick does       *)
(* between two awaits is local and is modelled in the step of the await    *)
(* that precedes it.  Every unwrap() that fails panics the task of that    *)
(* tick.                                                                   *)
(***************************************************************************)
EXTENDS Integers, Sequences, FiniteSets, TLC

\* ---------------------------------------------------------------- bounds
MaxTicks == 2       \* firings of the job over the whole behaviour
MaxTasks == 2       \* ticks in flight at the same time
MaxRestarts == 1    \* restarts of the process
MaxRejects == 1     \* sends that the gateway rejects before it accepts again

\* ----------------------------------------------------------- value spaces
None == "None"                       \* Option::None of a string

\* Item::dublin_core_ext() is modelled as <<>> when the item has no
\* extension and as <<creators>> when it has one

\* rss::Item, restricted to the fields the job reads
Item(title, description, link, dc) ==
    [title |-> title, description |-> description, link |-> link, dc |-> dc]

\* the newest items the feed may show: every pair of a title and a link,
\* every shape of the Dublin Core extension, and items that lack a field
Items ==
    {Item("T1", "D", "https://x/1", <<>>),
     Item("T2", "D", "https://x/1", << <<>> >>),
     Item("T1", "D", "https://x/2", << <<"A">> >>),
     Item("T2", "D", "https://x/2", << <<"A">> >>),
     Item(None, "D", "https://x/1", <<>>),
     Item("T1", None, "https://x/1", <<>>),
     Item("T1", "D", None, <<>>)}

\* an item that may follow the newest one in the feed
OlderItem ==
    [title |-> "T0", description |-> "D", link |-> "https://x/0", dc |-> <<>>]

\* an item without any of the fields, which may also follow the newest one
EmptyOlderItem == [title |-> None, description |-> None, link |-> None, dc |-> <<>>]

OlderItems == {OlderItem, EmptyOlderItem}

\* what reqwest::get(..).await / .bytes().await can produce: an error
\* (ok = FALSE), or a body that is either no RSS document (rss = FALSE) or
\* a channel with its items, newest first
Responses ==
    {[ok |-> FALSE, rss |-> FALSE, items |-> <<>>],
     [ok |-> TRUE, rss |-> FALSE, items |-> <<>>],
     [ok |-> TRUE, rss |-> TRUE, items |-> <<>>]}
        \cup {[ok |-> TRUE, rss |-> TRUE, items |-> <<i>>] : i \in Items}
        \cup {[ok |-> TRUE, rss |-> TRUE, items |-> <<i, o>>] : i \in Items, o \in OlderItems}

\* ------------------------------------------------------------------ state
VARIABLES
    phase,      \* "Idle" before setup, "Armed" once the scheduler is started,
                \* "SetupFailed" when setup returned an error
    tasks,      \* the ticks in flight: one record per spawned job body
    channel,    \* the message log of the destination channel, oldest first
    fired,      \* firings of the job so far
    restarts,   \* restarts of the process so far
    rejected,   \* sends that the gateway has rejected so far
    done,       \* history: the tick that finished last in this process
    run         \* history: the current run of consecutive ticks that saw the
                \* same link as the newest item, and the number of items
                \* that followed the newest one in the latest feed

vars == <<phase, tasks, channel, fired, restarts, rejected, done, run>>

\* ------------------------------------------------------------- the card
Thumbnail == "https://cloudfront-eu-central-1.images.arcpublishing.com/dlnews/BJHFLDCZ3NCGRA7FGWFZZWPFLQ.png"

\* the locals story_title, story_description, story_link and creator
NoStory == [title |-> None, description |-> None, link |-> None, creator |-> None]

\* the embed that the closure of send_message builds
NoEmbed ==
    [title |-> None, description |-> None, url |-> None, thumbnail |-> None,
     colour |-> 0, footer |-> None]

\* a card with the title and the description exchanged
EmbedSwapped(story) ==
    [title |-> story.description, description |-> story.title, url |-> story.link,
     thumbnail |-> Thumbnail, colour |-> 255, footer |-> "By " \o story.creator]

\* a card whose url is the title of the story
EmbedTitleAsUrl(story) ==
    [title |-> story.title, description |-> story.description, url |-> story.title,
     thumbnail |-> Thumbnail, colour |-> 255, footer |-> "By " \o story.creator]

Embed(story) ==
    [title |-> story.title, description |-> story.description, url |-> story.link,
     thumbnail |-> Thumbnail, colour |-> 255, footer |-> "By " \o story.creator]

CardMessage(story) == [content |-> "", embeds |-> <<Embed(story)>>]

\* messages that the channel may hold when the process starts
PlainMessage == [content |-> "https://x/1", embeds |-> <<>>]
UntitledEmbedMessage ==
    [content |-> "", embeds |-> <<[NoEmbed EXCEPT !.description = "D"]>>]
OldStory ==
    [title |-> "Old", description |-> "D", link |-> "https://x/1", creator |-> "Unknown"]
PostedStory ==
    [title |-> "T1", description |-> "D", link |-> "https://x/1", creator |-> "Unknown"]

InitialChannels ==
    {<<>>, <<PlainMessage>>, <<UntitledEmbedMessage>>, <<CardMessage(OldStory)>>,
     <<CardMessage(PostedStory)>>}

\* --------------------------------------------------- the steps of a tick
\* a creator that is empty when the item names none
CreatorOfNoFallback(item) ==
    IF Len(item.dc) > 0 /\ Len(item.dc[1]) > 0 THEN item.dc[1][1] ELSE ""

\* creator: the first creator of the Dublin Core extension, or "Unknown"
CreatorOf(item) ==
    IF Len(item.dc) > 0 /\ Len(item.dc[1]) > 0 THEN item.dc[1][1] ELSE "Unknown"

\* the last item of the feed
Oldest(items) == items[Len(items)]

\* content_channel.items[0]
Newest(items) == items[1]

\* a fetch stage that gives a missing description the empty string
FetchStageDefaults(resp) ==
    IF ~resp.ok THEN [err |-> "fetch", story |-> NoStory]
    ELSE IF ~resp.rss THEN [err |-> "parse", story |-> NoStory]
    ELSE IF Len(resp.items) = 0 THEN [err |-> "no_items", story |-> NoStory]
    ELSE LET story == Newest(resp.items) IN
        IF story.title = None THEN [err |-> "item_title", story |-> NoStory]
        ELSE IF story.link = None THEN [err |-> "item_link", story |-> NoStory]
        ELSE [err |-> None,
              story |-> [title |-> story.title,
                         description |-> IF story.description = None THEN ""
                                         ELSE story.description,
                         link |-> story.link, creator |-> CreatorOf(story)]]

\* From the GET to the locals of the story.  err names the unwrap() or the
\* index that panics, None when none does.
FetchStage(resp) ==
    IF ~resp.ok THEN [err |-> "fetch", story |-> NoStory]
    ELSE IF ~resp.rss THEN [err |-> "parse", story |-> NoStory]
    ELSE IF Len(resp.items) = 0 THEN [err |-> "no_items", story |-> NoStory]
    ELSE LET story == Newest(resp.items) IN
        IF story.title = None THEN [err |-> "item_title", story |-> NoStory]
        ELSE IF story.description = None
            THEN [err |-> "item_description", story |-> NoStory]
        ELSE IF story.link = None THEN [err |-> "item_link", story |-> NoStory]
        ELSE [err |-> None,
              story |-> [title |-> story.title, description |-> story.description,
                         link |-> story.link, creator |-> CreatorOf(story)]]

\* a tick that compares with what this process remembers to have announced
\* last instead of asking the channel
CachedMessages(ch, limit) ==
    IF done.outcome = "sent" THEN <<CardMessage(done.story)>> ELSE <<CardMessage(OldStory)>>

\* ChannelId::messages with retriever.limit(limit): the most recent
\* messages of the channel, newest first
Messages(ch, limit) ==
    LET n == IF Len(ch) < limit THEN Len(ch) ELSE limit
    IN  [i \in 1..n |-> ch[Len(ch) + 1 - i]]

\* what the history query can produce: an error or the messages
HistoryResponses(ch) ==
    {[ok |-> FALSE, messages |-> <<>>], [ok |-> TRUE, messages |-> Messages(ch, 1)]}

\* a comparison with the link of the story
IsDuplicateByLink(key, story) == key = story.link

\* a comparison that never finds a duplicate
NeverDuplicate(key, story) == FALSE

\* the comparison of line 135
IsDuplicate(key, story) == key = story.title

\* a history stage that takes a message without key for an old announcement
HistoryStageLenient(story, hist) ==
    IF ~hist.ok THEN [err |-> "history", key |-> None, new |-> FALSE]
    ELSE IF Len(hist.messages) = 0 \/ Len(hist.messages[1].embeds) = 0
        THEN [err |-> None, key |-> "", new |-> TRUE]
    ELSE LET title == hist.messages[1].embeds[1].title IN
        IF title = None THEN [err |-> None, key |-> "", new |-> TRUE]
        ELSE [err |-> None, key |-> title, new |-> ~IsDuplicate(title, story)]

\* a history stage that takes an empty channel for a first run
HistoryStageFirstRun(story, hist) ==
    IF ~hist.ok THEN [err |-> "history", key |-> None, new |-> FALSE]
    ELSE IF Len(hist.messages) = 0 THEN [err |-> None, key |-> "", new |-> TRUE]
    ELSE LET prev_news == hist.messages[1] IN
        IF Len(prev_news.embeds) = 0 THEN [err |-> "no_embed", key |-> None, new |-> FALSE]
        ELSE LET title == prev_news.embeds[1].title IN
            IF title = None THEN [err |-> "no_key", key |-> None, new |-> FALSE]
            ELSE [err |-> None, key |-> title, new |-> ~IsDuplicate(title, story)]

\* From the history query to the decision.  err names the unwrap() that
\* panics; new tells whether the tick goes on to send.
HistoryStage(story, hist) ==
    IF ~hist.ok THEN [err |-> "history", key |-> None, new |-> FALSE]
    ELSE IF Len(hist.messages) = 0 THEN [err |-> "no_message", key |-> None, new |-> FALSE]
    ELSE LET prev_news == hist.messages[1] IN
        IF Len(prev_news.embeds) = 0 THEN [err |-> "no_embed", key |-> None, new |-> FALSE]
        ELSE LET title == prev_news.embeds[1].title IN
            IF title = None THEN [err |-> "no_key", key |-> None, new |-> FALSE]
            ELSE [err |-> None, key |-> title, new |-> ~IsDuplicate(title, story)]

\* the unwrap()s and the index of the job body
Panics ==
    {"fetch", "parse", "no_items", "item_title", "item_description", "item_link",
     "history", "no_message", "no_embed", "no_key", "send"}
BeforeHistory == {"fetch", "parse", "no_items", "item_title", "item_description", "item_link"}
AtLookup == {"history", "no_message", "no_embed", "no_key"}

\* ---------------------------------------------------------------- history
NoTick ==
    [id |-> 0, outcome |-> None, story |-> NoStory, key |-> None, same |-> FALSE,
     seen |-> FALSE, sends |-> 0, payload |-> NoEmbed, ops |-> <<>>]
NoRun == [story |-> NoStory, start |-> 0, sends |-> 0, rest |-> 0]

NewTask(id) ==
    [id |-> id, pc |-> "fetch", story |-> NoStory, key |-> None, same |-> FALSE,
     runStart |-> 0, seen |-> FALSE, ops |-> <<>>]

\* the titles of the cards in the channel
PostedTitles(ch) ==
    {ch[i].embeds[1].title : i \in {j \in 1..Len(ch) : Len(ch[j].embeds) > 0}}

Finished(t, outcome, sends) ==
    [id |-> t.id, outcome |-> outcome, story |-> t.story, key |-> t.key,
     same |-> t.same, seen |-> t.seen, sends |-> sends,
     payload |-> IF sends = 0 THEN NoEmbed ELSE Embed(t.story),
     ops |-> t.ops]

Init ==
    /\ phase = "Idle"
    /\ tasks = {}
    /\ channel \in InitialChannels
    /\ fired = 0
    /\ restarts = 0
    /\ rejected = 0
    /\ done = NoTick
    /\ run = NoRun

\* ---------------------------------------------------------------- actions
\* setup returns Ok(Data {}): the job is added and the scheduler started
Setup ==
    /\ phase = "Idle"
    /\ phase' = "Armed"
    /\ UNCHANGED <<tasks, channel, fired, restarts, rejected, done, run>>

\* one of the ?s of setup returns the error: on_error panics
SetupFails ==
    /\ phase = "Idle"
    /\ phase' = "SetupFailed"
    /\ UNCHANGED <<tasks, channel, fired, restarts, rejected, done, run>>

\* a job that fires without the scheduler being started
FireUnarmed ==
    /\ fired < MaxTicks
    /\ Cardinality(tasks) < MaxTasks
    /\ fired' = fired + 1
    /\ tasks' = tasks \cup {NewTask(fired + 1)}
    /\ UNCHANGED <<phase, channel, restarts, rejected, done, run>>

\* a job that fires a single time
FireOnce ==
    /\ phase = "Armed"
    /\ fired = 0
    /\ fired' = fired + 1
    /\ tasks' = tasks \cup {NewTask(fired + 1)}
    /\ UNCHANGED <<phase, channel, restarts, rejected, done, run>>

\* the period of the repeated job elapses: the scheduler spawns the job
\* body as a task of its own, whatever the earlier ticks are doing
Fire ==
    /\ phase = "Armed"
    /\ fired < MaxTicks
    /\ Cardinality(tasks) < MaxTasks
    /\ fired' = fired + 1
    /\ tasks' = tasks \cup {NewTask(fired + 1)}
    /\ UNCHANGED <<phase, channel, restarts, rejected, done, run>>

\* a panic that takes the process down
PanicTerminates(t, why, sends) ==
    /\ tasks' = {}
    /\ done' = Finished(t, why, sends)
    /\ phase' = "Crashed"

\* a failure after which the tick starts over
PanicRetry(t, why, sends) ==
    /\ tasks' = {x \in tasks : x.id # t.id} \cup {[t EXCEPT !.pc = "fetch"]}
    /\ done' = done
    /\ phase' = phase

\* a panic unwinds the task of the tick; the runtime catches it
Panic(t, why, sends) ==
    /\ tasks' = {x \in tasks : x.id # t.id}
    /\ done' = Finished(t, why, sends)
    /\ phase' = phase

\* the job body returns
Return(t, outcome, sends) ==
    /\ tasks' = {x \in tasks : x.id # t.id}
    /\ done' = Finished(t, outcome, sends)
    /\ phase' = phase

\* lines 106-125, with resp the outcome of the GET
FetchWith(t, resp) ==
    /\ t.pc = "fetch"
    /\  LET r == FetchStage(resp)
            g == [t EXCEPT !.ops = Append(@, "get")]
        IN
        IF r.err # None
        THEN /\ Panic(g, r.err, 0)
             /\ run' = [story |-> NoStory, start |-> t.id, sends |-> 0, rest |-> 0]
        ELSE LET continues == r.story.link = run.story.link
                 start == IF continues THEN run.start ELSE t.id
             IN /\ tasks' = (tasks \ {t}) \cup
                        {[g EXCEPT !.pc = "history", !.story = r.story,
                                   !.same = (r.story = run.story),
                                   !.runStart = start]}
                /\ run' = [story |-> r.story, start |-> start,
                           sends |-> IF continues THEN run.sends ELSE 0,
                           rest |-> Len(resp.items) - 1]
                /\ UNCHANGED <<phase, done>>
    /\ UNCHANGED <<channel, fired, restarts, rejected>>

Fetch(t) == \E resp \in Responses : FetchWith(t, resp)

\* lines 127-138, with hist the outcome of the history query
ReadHistoryWith(t, hist) ==
    /\ t.pc = "history"
    /\  LET h == HistoryStage(t.story, hist)
            u == [t EXCEPT !.key = h.key, !.ops = Append(@, "messages"),
                           !.seen = hist.ok /\ t.story.title \in PostedTitles(channel)]
        IN  IF h.err # None THEN Panic(u, h.err, 0)
            ELSE IF ~h.new THEN Return(u, "duplicate", 0)
            ELSE /\ tasks' = (tasks \ {t}) \cup {[u EXCEPT !.pc = "send"]}
                 /\ UNCHANGED <<phase, done>>
    /\ UNCHANGED <<channel, fired, restarts, rejected, run>>

ReadHistory(t) == \E hist \in HistoryResponses(channel) : ReadHistoryWith(t, hist)

\* lines 141-158, with accepted the answer of the gateway
SendWith(t, accepted) ==
    /\ t.pc = "send"
    /\  LET u == [t EXCEPT !.ops = Append(@, "send")] IN
        IF accepted
        THEN /\ channel' = Append(channel, CardMessage(t.story))
             /\ Return(u, "sent", 1)
             /\ run' = IF t.runStart = run.start
                       THEN [run EXCEPT !.sends = @ + 1] ELSE run
             /\ rejected' = rejected
        ELSE /\ Panic(u, "send", 1)
             /\ rejected' = rejected + 1
             /\ UNCHANGED <<channel, run>>
    /\ UNCHANGED <<fired, restarts>>

Send(t) == \E accepted \in BOOLEAN : SendWith(t, accepted)

\* the process is stopped and started again; the channel is all that stays
Restart ==
    /\ phase # "Idle"
    /\ restarts < MaxRestarts
    /\ restarts' = restarts + 1
    /\ phase' = "Idle"
    /\ tasks' = {}
    /\ done' = NoTick
    /\ run' = NoRun
    /\ UNCHANGED <<channel, fired, rejected>>

Next ==
    \/ Setup
    \/ SetupFails
    \/ Fire
    \/ \E t \in tasks : Fetch(t)
    \/ \E t \in tasks : ReadHistory(t)
    \/ \E t \in tasks : Send(t)
    \/ Restart

Spec == Init /\ [][Next]_vars

\* The job in the surroundings of a retry: the feed answers and keeps its
\* newest item, the history of the channel can be read, and the gateway
\* rejects at most MaxRejects sends.  The timer keeps firing and every
\* awaited operation of a tick returns.
RetryFetch(t) ==
    \E resp \in Responses :
        /\ FetchStage(resp).err = None
        /\ run.story # NoStory => FetchStage(resp).story = run.story
        /\ FetchWith(t, resp)

RetryReadHistory(t) ==
    \E hist \in HistoryResponses(channel) : hist.ok /\ ReadHistoryWith(t, hist)

RetrySend(t) ==
    \E accepted \in BOOLEAN :
        /\ ~accepted => rejected < MaxRejects
        /\ SendWith(t, accepted)

RetryNext ==
    \/ Setup
    \/ Fire
    \/ \E t \in tasks : RetryFetch(t)
    \/ \E t \in tasks : RetryReadHistory(t)
    \/ \E t \in tasks : RetrySend(t)

RetrySpec ==
    /\ Init
    /\ [][RetryNext]_vars
    /\ WF_vars(Setup)
    /\ WF_vars(Fire)
    /\ WF_vars(\E t \in tasks : RetryFetch(t))
    /\ WF_vars(\E t \in tasks : RetryReadHistory(t))
    /\ WF_vars(\E t \in tasks : RetrySend(t))

TypeOK ==
    /\ phase \in {"Idle", "Armed", "SetupFailed"}
    /\ fired \in 0..MaxTicks
    /\ restarts \in 0..MaxRestarts
    /\ \A t \in tasks : t.pc \in {"fetch", "history", "send"}

\* ------------------------------------------------------------- properties
\* the title of the first embed of the most recent message, None when the
\* channel is empty, the message has no embed or the embed has no title
LastTitle(ch) ==
    IF Len(ch) = 0 THEN None
    ELSE IF Len(ch[Len(ch)].embeds) = 0 THEN None
    ELSE ch[Len(ch)].embeds[1].title

\* the card the spec describes for a story
ExpectedCard(story) ==
    [title |-> story.title, description |-> story.description, url |-> story.link,
     thumbnail |-> Thumbnail, colour |-> 255, footer |-> "By " \o story.creator]

\* this step is the history query and the comparison of tick t
HistoryStepOf(t) ==
    /\ t.pc = "history"
    /\ t \notin tasks'
    /\ restarts' = restarts

\* this step ends tick t
EndOf(t) == done'.id = t.id /\ done # done'

\* C1: over a run of consecutive ticks that see the same link as the newest
\* item, at most one announcement is posted for that link.
C1_OnePerLink == run.sends <= 1

\* C2: a tick that fetches the same newest item as the tick before it
\* performs no send.
C2_SecondTickSilent == done.same => done.sends = 0

\* C3: a tick that finds the title of the newest item different from the
\* title of the channel's last announcement calls send_message exactly once,
\* with the card that is computed from that item alone; when the gateway
\* accepts it, that card is the channel's most recent message.
C3_Novelty ==
    /\ done.key # None /\ done.key # done.story.title =>
            done.sends = 1 /\ done.payload = ExpectedCard(done.story)
    /\ done.outcome = "sent" =>
            /\ Len(channel) > 0
            /\ channel[Len(channel)].embeds = <<ExpectedCard(done.story)>>

C3_Witness ==
    /\ done.outcome = "sent"
    /\ done.key = "Old"
    /\ done.story.title = "T2"

\* C4: a tick that panics ends alone: the scheduler stays started, the other
\* ticks stay in flight, a panic before the send leaves the channel as it
\* was and has sent nothing, and the next firing remains possible.
C4_FailureIsolation ==
    /\ [][\A t \in tasks : EndOf(t) /\ done'.outcome \in Panics =>
            /\ phase' = "Armed"
            /\ tasks' = tasks \ {t}
            /\ channel' = channel
            /\ done'.outcome \in BeforeHistory \cup AtLookup => done'.sends = 0]_vars
    /\ [](done.outcome \in Panics /\ fired < MaxTicks /\ Cardinality(tasks) < MaxTasks
            => ENABLED Fire)

C4_Witness ==
    /\ done.outcome = "fetch"
    /\ phase = "Armed"
    /\ \E t \in tasks : t.id > done.id /\ t.pc = "send"

\* C5: at most one tick of the job is in flight at any moment.
C5_NonOverlap == Cardinality(tasks) <= 1

\* C6: no tick announces an item whose title the channel already held when
\* the tick read the history.
C6_NeverAnnouncedAgain == ~(done.outcome = "sent" /\ done.seen)

\* C6, amended: whatever is posted to the channel is the card of a tick that
\* read a most recent message whose title differs from the title of its
\* item; earlier messages of the channel play no part.
C6_OnlyLastSuppresses ==
    [][channel' # channel =>
        \E t \in tasks :
            /\ t.pc = "send"
            /\ t.key # None /\ t.key # t.story.title
            /\ channel' = Append(channel, CardMessage(t.story))]_vars

C6_Witness ==
    /\ done.outcome = "sent"
    /\ done.seen
    /\ Len(channel) = 3
    /\ LastTitle(channel) = channel[1].embeds[1].title

\* C7: when the most recent message yields a key, the tick returns without
\* sending exactly if that key, the title of the first embed of the most
\* recent message, equals the title of the newest item, and goes on to send
\* in every other case.
C7_EqualityTest ==
    [][\A t \in tasks :
        /\ HistoryStepOf(t)
        /\ LastTitle(channel) # None
        /\ ~(EndOf(t) /\ done'.outcome = "history")
        => IF LastTitle(channel) = t.story.title
           THEN EndOf(t) /\ done'.outcome = "duplicate" /\ done'.sends = 0
                /\ channel' = channel
           ELSE \E u \in tasks' :
                    u.id = t.id /\ u.pc = "send" /\ u.key = LastTitle(channel)]_vars

C7_Witness ==
    /\ done.outcome = "duplicate"
    /\ done.key = done.story.title
    /\ LastTitle(channel) = done.key

\* C8: a tick whose newest item has the link https://x/2 and that finds the
\* plain message https://x/1 as the most recent message goes on to send.
C8_PlainScenario ==
    [][\A t \in tasks :
        /\ HistoryStepOf(t)
        /\ t.story.link = "https://x/2"
        /\ Len(channel) > 0 /\ channel[Len(channel)] = PlainMessage
        /\ ~(EndOf(t) /\ done'.outcome = "history")
        => \E u \in tasks' : u.id = t.id /\ u.pc = "send"]_vars

\* C8, amended: a tick whose newest item has the link https://x/2 and that
\* finds a card with another title as the most recent message calls
\* send_message once with a card whose url is https://x/2; a tick that finds
\* a message without embed sends nothing.
C8_CardScenario ==
    /\ (/\ done.story.link = "https://x/2"
        /\ done.key # None /\ done.key # done.story.title)
            => done.sends = 1 /\ done.payload.url = "https://x/2"
    /\ done.outcome = "no_embed" => done.sends = 0

C8_Witness ==
    /\ done.outcome = "sent"
    /\ done.key = "T1"
    /\ done.payload.url = "https://x/2"
    /\ channel[1] = CardMessage(PostedStory)

\* C9: in a process that was started again, a tick whose newest item has the
\* title of the channel's most recent card ends without sending, as it does
\* in a process that was never stopped.
C9_RestartKeepsDedup ==
    [][\A t \in tasks :
        /\ restarts > 0
        /\ HistoryStepOf(t)
        /\ LastTitle(channel) = t.story.title
        => EndOf(t) /\ done'.sends = 0 /\ channel' = channel]_vars

C9_Witness ==
    /\ restarts > 0
    /\ done.outcome = "duplicate"
    /\ Len(channel) = 2

\* C10: ticks are in flight only while the scheduler is started, a started
\* scheduler stays started for as long as the process lives, and the end of
\* every tick leaves it started.
C10_LifeCycle ==
    /\ [](tasks # {} => phase = "Armed")
    /\ [](fired > 0 /\ phase # "Armed" => restarts > 0)
    /\ [][phase = "Armed" /\ restarts' = restarts => phase' = "Armed"]_vars
    /\ [][phase' = "Armed" => phase \in {"Idle", "Armed"}]_vars
    /\ [][\A t \in tasks : EndOf(t) => phase' = "Armed"]_vars

C10_Witness ==
    /\ phase = "Armed"
    /\ tasks = {}
    /\ done.id = 2

\* the item of the feed that a story was read from
ItemOf(story) ==
    CHOOSE i \in Items :
        /\ i.title = story.title
        /\ i.description = story.description
        /\ i.link = story.link

\* the author the spec names for an item
AuthorOf(item) ==
    IF item.dc = <<>> \/ item.dc = << <<>> >> THEN "Unknown" ELSE item.dc[1][1]

MalformedItem == {"no_items", "item_title", "item_description", "item_link"}

\* C11: a feed whose newest item is followed by older items is fetched to
\* the same story, the same decision and the same card as the feed of the
\* newest item alone, and no story, card or message carries an older item.
C11_OnlyNewest ==
    /\ \A i \in Items : \A o \in OlderItems :
        LET alone == FetchStage([ok |-> TRUE, rss |-> TRUE, items |-> <<i>>])
            more == FetchStage([ok |-> TRUE, rss |-> TRUE, items |-> <<i, o>>])
        IN  /\ alone = more
            /\ alone.err = None =>
                /\ Embed(alone.story) = Embed(more.story)
                /\ \A h \in HistoryResponses(channel) :
                    HistoryStage(alone.story, h) = HistoryStage(more.story, h)
    /\ \A t \in tasks : t.story.title # "T0" /\ t.story.link # "https://x/0"
    /\ done.story.title # "T0" /\ done.payload.title # "T0"
    /\ "T0" \notin PostedTitles(channel)

C11_Witness ==
    /\ fired = 1
    /\ run.rest = 1
    /\ \E t \in tasks : t.pc = "send" /\ t.story = run.story

\* C12: every card handed to send_message has the title, the description
\* and the link of the item as title, body and url, and the footer "By "
\* followed by the first creator of the item or by "Unknown"; an accepted
\* card is the message the channel ends with.
C12_CardFields ==
    /\ done.sends = 1 =>
        LET item == ItemOf(done.story) IN
        /\ done.payload.title = item.title
        /\ done.payload.description = item.description
        /\ done.payload.url = item.link
        /\ done.payload.footer = "By " \o AuthorOf(item)
    /\ done.outcome = "sent" => channel[Len(channel)].embeds[1] = done.payload

C12_Witness ==
    /\ done.outcome = "sent"
    /\ Len(channel) = 3
    /\ channel[2].embeds[1].footer = "By A"
    /\ channel[3].embeds[1].footer = "By Unknown"

\* C13: a tick that finds no message, no embed in the most recent message
\* or no title in its first embed ends at the lookup with a panic and sends
\* nothing.
C13_MissingKeyAborts ==
    [][\A t \in tasks :
        HistoryStepOf(t) /\ LastTitle(channel) = None =>
            /\ EndOf(t)
            /\ done'.sends = 0
            /\ done'.ops = <<"get", "messages">>
            /\ channel' = channel
            /\ done'.outcome \in AtLookup
            /\ done'.outcome # "history" =>
                done'.outcome = IF Len(channel) = 0 THEN "no_message"
                                ELSE IF Len(channel[Len(channel)].embeds) = 0
                                    THEN "no_embed"
                                ELSE "no_key"]_vars

C13_Witness ==
    /\ done.outcome = "no_message"
    /\ channel = <<>>
    /\ done.story.title = "T1"

\* C14: a tick performs the GET, then the history query with limit 1, then
\* the send, each at most once and each only after the one before it has
\* succeeded, and the send only after the comparison found another title.
C14_StepOrder ==
    /\ \A t \in tasks :
        /\ t.ops = CASE t.pc = "fetch" -> <<>>
                     [] t.pc = "history" -> <<"get">>
                     [] t.pc = "send" -> <<"get", "messages">>
        /\ t.pc # "fetch" => t.story # NoStory
        /\ t.pc = "send" => t.key # None /\ t.key # t.story.title
    /\ done.id # 0 =>
        /\ done.ops = IF done.outcome \in BeforeHistory THEN <<"get">>
                      ELSE IF done.outcome \in AtLookup \cup {"duplicate"}
                          THEN <<"get", "messages">>
                      ELSE <<"get", "messages", "send">>
        /\ done.sends = (IF Len(done.ops) = 3 THEN 1 ELSE 0)
        /\ Len(done.ops) = 3 => done.key # None /\ done.key # done.story.title
    /\ \A h \in HistoryResponses(channel) : Len(h.messages) <= 1

C14_Witness ==
    /\ done.outcome = "sent"
    /\ done.ops = <<"get", "messages", "send">>

\* C15: a rejected send leaves the channel as it was; the title of the most
\* recent message changes only with an accepted send; after a rejected send
\* a tick that fetches the same item and reads a most recent card with
\* another title goes on to send; and with the feed unchanged and the
\* gateway accepting again, the item becomes the channel's most recent card.
C15_RetryByCadence ==
    /\ [][\A t \in tasks : EndOf(t) /\ done'.outcome = "send" =>
            channel' = channel /\ rejected' = rejected + 1]_vars
    /\ [][LastTitle(channel') # LastTitle(channel) =>
            /\ done' # done
            /\ done'.outcome = "sent"
            /\ LastTitle(channel') = done'.story.title]_vars
    /\ [][\A t \in tasks :
            /\ HistoryStepOf(t)
            /\ done.outcome = "send" /\ done.story = t.story
            /\ LastTitle(channel) # None /\ LastTitle(channel) # t.story.title
            => \E u \in tasks' : u.id = t.id /\ u.pc = "send"]_vars
    /\ (done.outcome = "send") ~> (LastTitle(channel) = run.story.title)

C15_Witness ==
    /\ rejected = 1
    /\ done.id = 2
    /\ done.outcome = "sent"
    /\ done.seen = FALSE
    /\ LastTitle(channel) = done.story.title

\* C16: while the channel is empty or ends with a message that has no titled
\* embed, no tick reaches the send: the channel stays as it is, no send is
\* accepted and none is rejected.
C16_BootstrapStall ==
    /\ [][LastTitle(channel) = None => channel' = channel]_vars
    /\ [](LastTitle(channel) = None =>
            /\ rejected = 0
            /\ done.sends = 0
            /\ \A t \in tasks : t.pc # "send")

C16_Witness ==
    /\ channel = <<>>
    /\ fired = 2
    /\ tasks = {}
    /\ done.outcome = "no_message"

\* C17: no two adjacent cards of the channel have the same title.
C17_NoAdjacentSameTitle ==
    \A i \in 1..(Len(channel) - 1) :
        Len(channel[i].embeds) > 0 /\ Len(channel[i + 1].embeds) > 0 =>
            channel[i].embeds[1].title # channel[i + 1].embeds[1].title

\* C18: a feed without items, or whose newest item lacks the title, the
\* description or the link, panics the tick after the GET: the history is not
\* queried, nothing is sent, the scheduler stays started and can fire again;
\* an item without creator is no failure.
C18_MalformedItem ==
    /\ [][\A t \in tasks : EndOf(t) /\ done'.outcome \in MalformedItem =>
            /\ t.pc = "fetch"
            /\ done'.ops = <<"get">>
            /\ done'.sends = 0
            /\ channel' = channel
            /\ phase' = "Armed"
            /\ tasks' = tasks \ {t}]_vars
    /\ [](/\ done.outcome \in MalformedItem /\ fired < MaxTicks
             /\ Cardinality(tasks) < MaxTasks => ENABLED Fire
          /\ \A resp \in {r \in Responses : r.ok /\ r.rss} :
                LET malformed == \/ Len(resp.items) = 0
                                 \/ resp.items[1].title = None
                                 \/ resp.items[1].description = None
                                 \/ resp.items[1].link = None
                IN  IF malformed THEN FetchStage(resp).err \in MalformedItem
                    ELSE FetchStage(resp).err = None)

C18_Witness ==
    /\ done.outcome = "item_description"
    /\ \E t \in tasks : t.id > done.id /\ t.pc = "history"

====
